---- MODULE Spec2Model ----
(***************************************************************************)
(* github-md: a Cloudflare worker that serves GitHub markdown as JSON      *)
(* through a stale-while-revalidate cache kept in caches.default.          *)
(*                                                                         *)
(* The model follows src/src/index.ts: handleFetch with its response-level *)
(* cache, the four routes, renderFiles / renderMarkdown with the kv        *)
(* entries behind readFromCache / writeToCache, and the tasks handed to    *)
(* ctx.waitUntil.  Time is in milliseconds, as Date.now() gives it.        *)
(* The store is the Cache API: a put replaces the entry of its URL as a    *)
(* whole, and a match returns an entry until its max-age has run out.      *)
(***************************************************************************)
EXTENDS Integers, Sequences, FiniteSets, TLC

\* ------------------------------------------------------------------ constants
REVALIDATE_AFTER_MS == 5 * 60 * 1000
STALE_FOR_SECONDS == 2 * 24 * 60 * 60

\* ------------------------------------------------------------------ bounds
MaxRequests == 3      \* requests that arrive in one behaviour
MaxInFlight == 1      \* requests being handled at the same time
MaxTicks == 2         \* clock advances in one behaviour
MaxVersion == 1       \* upstream content changes in one behaviour
MaxElements == 2      \* elements of the html handed to the sanitizer
MaxTree == 3          \* items of the tree GitHub returns
MaxSegments == 4      \* segments of a dispatched path

\* The clock advances by one millisecond, by the revalidation window or by
\* the lifetime of a kv entry, so that both boundaries are met exactly.
TickSteps == {1, REVALIDATE_AFTER_MS, STALE_FOR_SECONDS * 1000}

\* ------------------------------------------------------------------ requests
\* A URL path is the sequence of its non-empty segments.
ReadmePath == <<"jacob-ebey", "github-md", "main", "README.md">>
DocPath == <<"u", "r", "m", "a.md">>
ListPath == <<"u", "r", "m">>
DemoPath == <<"_demo">> \o DocPath
DemoListPath == <<"_demo">> \o ListPath
RequestPaths == {<< >>, DemoPath, DemoListPath, ListPath, DocPath}

NoHeader == "absent"
\* The headers of a request: its Cache-Control and Pragma values.
RequestHeaders ==
    { [cc |-> NoHeader, pragma |-> NoHeader],
      [cc |-> "no-cache", pragma |-> NoHeader],
      [cc |-> NoHeader, pragma |-> "No-Cache"] }

\* String.prototype.toLowerCase / includes("no-cache") on the header values
\* the model sends.
toLowerCase(v) == IF v = "No-Cache" THEN "no-cache" ELSE v
includesNoCache(v) == v \in {"no-cache", "max-age=0, no-cache"}

\* (as if only the Pragma header were looked at)
shouldSkipCachePragmaOnly(h) ==
    h.pragma # NoHeader /\ includesNoCache(toLowerCase(h.pragma))
shouldSkipCache(h) ==
    \/ (h.cc # NoHeader /\ includesNoCache(toLowerCase(h.cc)))
    \/ (h.pragma # NoHeader /\ includesNoCache(toLowerCase(h.pragma)))

\* handleFetch's dispatch on url.pathname.
\* (as if three segments or more were a listing)
RouteFromThree(path) ==
    IF path = << >> THEN "docs"
    ELSE IF Len(path) >= 2 /\ path[1] = "_demo" THEN "demo"
    ELSE IF Len(path) >= 3 THEN "files"
    ELSE "markdown"
Route(path) ==
    IF path = << >> THEN "docs"
    ELSE IF Len(path) >= 2 /\ path[1] = "_demo" THEN "demo"
    ELSE IF Len(path) = 3 THEN "files"
    ELSE "markdown"

\* The request renderDocs / renderDemo hand to renderMarkdown: the README
\* (or the path after /_demo) with only Cache-Control copied over.
ForwardHeaders(h) == [cc |-> h.cc, pragma |-> NoHeader]
InnerRequest(path, h) ==
    CASE Route(path) = "docs" -> [path |-> ReadmePath, hdr |-> ForwardHeaders(h)]
      [] Route(path) = "demo" -> [path |-> Tail(path), hdr |-> ForwardHeaders(h)]
      [] OTHER -> [path |-> path, hdr |-> h]

\* The operation that reads the kv store for a route.
Operation(path) ==
    IF Route(path) = "files" THEN "renderFiles" ELSE "renderMarkdown"

\* ------------------------------------------------------------------ cache keys
\* filesJsonKey / kvJsonKey, and the URL readFromCache / writeToCache use.
\* The key is the operation's prefix followed by the pathname.
\* (as if both operations used the prefix json-swr)
KeyPrefixShared(op) == "json-swr"
KeyPrefix(op) == IF op = "renderFiles" THEN "files" ELSE "json-swr"
KvKey(op, path) == [ns |-> KeyPrefix(op), path |-> path]
KvUrl(key) == <<"kv", key.ns, key.path>>
ReqUrl(path) == <<"req", "", path>>

KvKeys == { KvKey(Operation(p), InnerRequest(p, h).path) :
              p \in RequestPaths, h \in RequestHeaders }
KvUrls == { KvUrl(k) : k \in KvKeys }
ReqUrls == { ReqUrl(p) : p \in RequestPaths }
Urls == KvUrls \cup ReqUrls

\* ------------------------------------------------------------------ payloads
Null == [kind |-> "null"]
\* What createNewCacheEntry / createNewFilesCacheEntry produce from the
\* upstream content at version v.
Document(path, v) == [kind |-> "Document", path |-> path, ver |-> v]
FileListing(path, v) == [kind |-> "FileListing", path |-> path, ver |-> v]
Produce(op, path, v) ==
    IF op = "renderFiles" THEN FileListing(path, v) ELSE Document(path, v)
NotFoundBody == [kind |-> "error", error |-> "Not found"]

\* Cache-Control of a response.
MaxAge(seconds) == [directive |-> "max-age", seconds |-> seconds]
NoCacheControl == [directive |-> "absent", seconds |-> 0]
NoCacheDirective == [directive |-> "no-cache", seconds |-> 0]


\* ------------------------------------------------------------------ responses
NoResponse == [status |-> 0, body |-> Null, cc |-> NoCacheControl]
NotFoundResponse ==
    [status |-> 404, body |-> NotFoundBody, cc |-> NoCacheControl]
DataResponse(data) ==
    [status |-> 200, body |-> data, cc |-> MaxAge(REVALIDATE_AFTER_MS \div 1000)]
\* The tail of renderFiles / renderMarkdown.
RenderResponse(data) ==
    IF data = Null THEN NotFoundResponse ELSE DataResponse(data)
\* renderDocs / renderDemo wrap the markdown response in the demo page.
PageResponse(inner) ==
    [status |-> 200,
     body |-> [kind |-> "page", html |-> inner.body],
     cc |-> IF inner.cc = NoCacheControl THEN NoCacheDirective ELSE inner.cc]
RouteResponse(path, data) ==
    IF Route(path) \in {"docs", "demo"}
    THEN PageResponse(RenderResponse(data))
    ELSE RenderResponse(data)

\* handleFetch's catch: console.log(e) and a 500.
\* (as if the catch answered 404 Not found)
InternalErrorResponseNotFound == NotFoundResponse
InternalErrorResponse ==
    [status |-> 500,
     body |-> [kind |-> "error", error |-> "Internal server error"],
     cc |-> NoCacheControl]

\* ------------------------------------------------------------------ the store
\* An entry of caches.default.  via: the code path that caused the put
\* ("miss", "bypass", "regen" for a kv entry, "response" for a response).
NoEntry == [absent |-> TRUE]
Entry(resp, staleAt, expires, expiresAt, via) ==
    [status |-> resp.status, body |-> resp.body, cc |-> resp.cc,
     staleAt |-> staleAt, expires |-> expires, expiresAt |-> expiresAt,
     via |-> via]
Live(e, t) == e # NoEntry /\ (e.expires => t < e.expiresAt)
\* caches.default.match(url) at time t.
Match(c, url, t) == IF Live(c[url], t) THEN c[url] ELSE NoEntry

\* The Response writeToCache builds, and the put it hands to the store.
\* (as if the entry were written with Cache-Control: no-cache)
KvResponseNoStore(value) ==
    [status |-> 200, body |-> value, cc |-> NoCacheDirective]
KvResponse(value) ==
    [status |-> 200, body |-> value, cc |-> MaxAge(STALE_FOR_SECONDS)]
PutTask(url, resp, staleAt, t, via) ==
    [type |-> "put", url |-> url, resp |-> resp, staleAt |-> staleAt,
     created |-> t, via |-> via]
\* (as if Stale-At were the write time itself)
writeToCacheNoWindow(key, value, t, via) ==
    PutTask(KvUrl(key), KvResponse(value), t, t, via)
\* (as if REVALIDATE_AFTER_MS were in seconds and converted once more)
writeToCacheWindowInSeconds(key, value, t, via) ==
    PutTask(KvUrl(key), KvResponse(value), t + REVALIDATE_AFTER_MS * 1000, t,
            via)
writeToCache(key, value, t, via) ==
    PutTask(KvUrl(key), KvResponse(value), t + REVALIDATE_AFTER_MS, t, via)
\* handleFetch: ctx.waitUntil(caches.default.put(request.url, response.clone()))
PutResponse(path, resp, t) == PutTask(ReqUrl(path), resp, 0, t, "response")
\* The regeneration a stale read hands to ctx.waitUntil: the operation's
\* createNew... call and the key its result is written under.  seen is the
\* Stale-At of the entry the read found.
RegenTask(op, key, seen) ==
    [type |-> "regen", url |-> KvUrl(key), resp |-> NoResponse, staleAt |-> seen,
     created |-> 0, via |-> "regen", op |-> op]
\* ctx.waitUntil(promise): every call adds a promise of its own, so a task
\* equal to a pending one is kept apart from it by its number.
\* (as if a regeneration equal to a pending one were absorbed by it)
waitUntilCoalesced(ts, task) == ts \cup {task}
waitUntil(ts, task) ==
    LET n == CHOOSE n \in 0 .. Cardinality(ts) :
                 /\ [task EXCEPT !.created = n] \notin ts
                 /\ \A m \in 0 .. n - 1 : [task EXCEPT !.created = m] \in ts
    IN ts \cup {[task EXCEPT !.created = n]}

\* What the store does with a put: a max-age bounds the entry's life from
\* the response's creation, no-cache is not stored, and a response with no
\* Cache-Control is kept or dropped as the store decides.
Stored(task) ==
    CASE task.resp.cc.directive = "max-age" ->
           { Entry(task.resp, task.staleAt, TRUE,
                   task.created + task.resp.cc.seconds * 1000, task.via) }
      [] task.resp.cc.directive = "no-cache" -> { NoEntry }
      [] OTHER ->
           { NoEntry, Entry(task.resp, task.staleAt, FALSE, 0, task.via) }

\* readFromCache: the entry's JSON and its Stale-At header, or null.
NoCached == [hit |-> FALSE, data |-> Null, staleAt |-> 0]
\* (as if the Stale-At were taken from a second match, of the response
\* stored for the path)
readFromCacheTorn(c, key, t) ==
    LET match == Match(c, KvUrl(key), t)
        other == IF ReqUrl(key.path) \in DOMAIN c
                 THEN Match(c, ReqUrl(key.path), t) ELSE NoEntry
    IN IF match = NoEntry THEN NoCached
       ELSE [hit |-> TRUE, data |-> match.body,
             staleAt |-> IF other = NoEntry THEN match.staleAt
                         ELSE other.staleAt]
readFromCache(c, key, t) ==
    LET match == Match(c, KvUrl(key), t)
    IN IF match = NoEntry THEN NoCached
       ELSE [hit |-> TRUE, data |-> match.body, staleAt |-> match.staleAt]

\* (as if every hit were stale)
IsStaleAlways(cached, now) == TRUE
\* cached.staleAt < now
IsStale(cached, now) == cached.staleAt < now

\* No pure function is being followed.
NoCall == [fn |-> "none"]

\* ------------------------------------------------------------------ state
\* Every handler and task reads and writes only the kv entry of its own key
\* and the response entry of its own URL, so entries of different keys never
\* meet; a behaviour follows the requests that address one kv key (focus),
\* through any of the URLs that lead to it.
VARIABLES
    clock,      \* Date.now()
    ticks,      \* clock advances so far
    upstream,   \* version of the content GitHub serves
    cache,      \* caches.default: URL -> entry
    tasks,      \* promises handed to ctx.waitUntil, not yet settled
    reqs,       \* the requests being handled, by slot
    arrived,    \* requests received so far
    focus,      \* the kv key the requests of this behaviour address
    failed,     \* a regeneration failed since the kv entry was last written
    replaced,   \* the kv entry the latest put of the focus key overwrote
    pure        \* the call of a pure function (parseMarkdown's sanitizer, the
                \* listing's filter, the dispatch) a behaviour follows instead

vars == <<clock, ticks, upstream, cache, tasks, reqs, arrived, focus, failed,
          replaced, pure>>

Slots == 1 .. MaxInFlight

Idle ==
    [pc |-> "idle", path |-> << >>,
     hdr |-> [cc |-> NoHeader, pragma |-> NoHeader],
     now |-> 0, cached |-> NoCached, data |-> Null, response |-> NoResponse,
     from |-> "none", fetches |-> 0, regens |-> 0, writes |-> 0,
     sample |-> 0]

Init ==
    /\ clock = 0
    /\ ticks = 0
    /\ upstream = 0
    /\ cache = [u \in Urls |-> NoEntry]
    /\ tasks = {}
    /\ reqs = [s \in Slots |-> Idle]
    /\ arrived = 0
    /\ focus \in KvKeys
    /\ failed = FALSE
    /\ replaced = NoEntry
    /\ pure = NoCall

\* The content a fetch of the upstream can meet: what the last fetch met,
\* or content published since.
Upstream == { v \in 0 .. MaxVersion : upstream <= v /\ v <= upstream + 1 }

Free(s) == reqs[s].pc = "idle"
\* A response that is ready is returned before anything else happens (the
\* return reads and writes nothing the other steps see).
NoneDone == \A s \in Slots : reqs[s].pc # "done"

\* The request renderFiles / renderMarkdown sees, its kv key, and whether
\* it reads the kv store.
Inner(r) == InnerRequest(r.path, r.hdr)
Key(r) == KvKey(Operation(r.path), Inner(r).path)
Via(r) == IF shouldSkipCache(Inner(r).hdr) THEN "bypass" ELSE "miss"

\* handleFetch up to the first suspension inside the route: the response
\* cache is consulted unless the request bypasses it; on a miss the route
\* starts and takes its Date.now().
handleFetch(s, path, hdr) ==
    /\ NoneDone
    /\ arrived < MaxRequests
    /\ Free(s)
    /\ \A o \in Slots : o < s => ~Free(o)
    /\ Key([path |-> path, hdr |-> hdr]) = focus
    /\ arrived' = arrived + 1
    /\ LET response == IF shouldSkipCache(hdr) THEN NoEntry
                       ELSE Match(cache, ReqUrl(path), clock)
           base == [Idle EXCEPT !.path = path, !.hdr = hdr]
       IN reqs' = [reqs EXCEPT ![s] =
            IF response # NoEntry
            THEN [base EXCEPT !.pc = "done", !.from = "response-cache",
                     !.response = [status |-> response.status,
                                   body |-> response.body,
                                   cc |-> response.cc]]
            ELSE [base EXCEPT !.now = clock,
                     !.pc = IF Via(base) = "bypass" THEN "fetch" ELSE "read"]]
    /\ UNCHANGED <<clock, ticks, upstream, cache, tasks, focus, failed,
                   replaced, pure>>

\* The tasks a read that found an entry hands to ctx.waitUntil.
ReadTasks(op, key, cached, now) ==
    IF IsStale(cached, now) THEN {RegenTask(op, key, cached.staleAt)} ELSE {}

\* A fault after renderMarkdown has returned to renderDocs / renderDemo
\* (rendering the page throws): handleFetch's catch answers, and line 76 is
\* not reached.
Thrown(r, thrown) ==
    thrown => Route(r.path) \in {"docs", "demo"}
Answer(r, response, thrown) ==
    IF thrown THEN InternalErrorResponse ELSE response
Puts(r, response, t, thrown) ==
    IF thrown THEN {} ELSE {PutResponse(r.path, response, t)}

\* renderFiles / renderMarkdown after readFromCache settles.  A hit answers
\* with the cached data, and schedules a regeneration when it is stale; the
\* response then goes back through handleFetch, which puts it in the
\* response cache.
ReadStep(s, thrown) ==
    LET r == reqs[s]
        cached == readFromCache(cache, Key(r), clock)
    IN /\ NoneDone
       /\ r.pc = "read"
       /\ Thrown(r, thrown)
       /\ thrown => cached.hit
       /\ IF cached.hit
          THEN LET regen == ReadTasks(Operation(r.path), Key(r), cached, r.now)
                   handed == IF regen = {} THEN tasks
                             ELSE waitUntil(tasks, CHOOSE task \in regen : TRUE)
                   response == RouteResponse(r.path, cached.data)
               IN /\ reqs' = [reqs EXCEPT ![s] =
                        [r EXCEPT !.pc = "done", !.cached = cached,
                                  !.data = cached.data,
                                  !.from = IF thrown THEN "fault" ELSE "kv",
                                  !.response = Answer(r, response, thrown),
                                  !.regens = Cardinality(regen)]]
                  /\ tasks' = handed \cup Puts(r, response, clock, thrown)
          ELSE /\ reqs' = [reqs EXCEPT ![s] = [r EXCEPT !.pc = "fetch"]]
               /\ tasks' = tasks
       /\ UNCHANGED <<clock, ticks, upstream, cache, arrived, focus, failed,
                      replaced, pure>>
Read(s) == ReadStep(s, FALSE)

\* (as if a bypass request did not write back)
MissTasksUnlessBypass(r, data, t) ==
    IF data # Null /\ Via(r) # "bypass"
    THEN {writeToCache(Key(r), data, t, Via(r))} ELSE {}
\* if (data) ctx.waitUntil(writeToCache(key, data))
MissTasks(r, data, t) ==
    IF data # Null THEN {writeToCache(Key(r), data, t, Via(r))} ELSE {}

\* The miss branch: createNewCacheEntry / createNewFilesCacheEntry settles
\* with the upstream content or with null (upstream not ok); a result is
\* handed to writeToCache, and the response to the response cache.
FetchStep(s, ok, v, thrown) ==
    LET r == reqs[s]
        key == Key(r)
        data == IF ok THEN Produce(Operation(r.path), key.path, v) ELSE Null
        response == RouteResponse(r.path, data)
    IN /\ NoneDone
       /\ r.pc = "fetch"
       /\ v \in Upstream
       /\ Thrown(r, thrown)
       /\ reqs' = [reqs EXCEPT ![s] =
            [r EXCEPT !.pc = "done", !.data = data,
                      !.from = IF thrown THEN "fault" ELSE "upstream",
                      !.response = Answer(r, response, thrown),
                      !.fetches = r.fetches + 1,
                      !.writes = Cardinality(MissTasks(r, data, clock)),
                      !.sample = v]]
       /\ tasks' = tasks \cup MissTasks(r, data, clock)
                         \cup Puts(r, response, clock, thrown)
       /\ upstream' = v
       /\ UNCHANGED <<clock, ticks, cache, arrived, focus, failed, replaced,
                      pure>>
Fetch(s, ok, v) == FetchStep(s, ok, v, FALSE)

\* A fault inside the route before it has answered: caches.default.match,
\* the upstream fetch or the parse rejects.  handleFetch's catch answers.
Throw(s) ==
    /\ NoneDone
    /\ reqs[s].pc \in {"read", "fetch"}
    /\ reqs' = [reqs EXCEPT ![s] =
         [reqs[s] EXCEPT !.pc = "done", !.from = "fault",
                         !.response = InternalErrorResponse]]
    /\ UNCHANGED <<clock, ticks, upstream, cache, tasks, arrived, focus, failed,
                   replaced, pure>>
\* The page of renderDocs / renderDemo throws after renderMarkdown answered
\* from the kv entry, or from the upstream.
ReadThenThrow(s) == ReadStep(s, TRUE)
FetchThenThrow(s, ok, v) == FetchStep(s, ok, v, TRUE)

\* handleFetch returns the response.
Return(s) ==
    /\ reqs[s].pc = "done"
    /\ reqs' = [reqs EXCEPT ![s] = Idle]
    /\ UNCHANGED <<clock, ticks, upstream, cache, tasks, arrived, focus, failed,
                   replaced, pure>>

\* The background regeneration:
\*   createNew...(...).then((toCache) => toCache && writeToCache(key, toCache))
\* (as if the result were written whether or not it is null)
RegenThenAlways(key, toCache, t) == {writeToCache(key, toCache, t, "regen")}
RegenThen(key, toCache, t) ==
    IF toCache # Null THEN {writeToCache(key, toCache, t, "regen")} ELSE {}
Regenerate(task, ok, v) ==
    /\ NoneDone
    /\ v \in Upstream
    /\ task \in tasks
    /\ task.type = "regen"
    /\ LET key == [ns |-> task.url[2], path |-> task.url[3]]
           toCache == IF ok THEN Produce(task.op, key.path, v) ELSE Null
       IN tasks' = (tasks \ {task}) \cup RegenThen(key, toCache, clock)
    /\ upstream' = v
    /\ failed' = (failed \/ ~ok)
    /\ UNCHANGED <<clock, ticks, cache, reqs, arrived, focus, replaced, pure>>

\* The puts of kv entries among the tasks ts.
KvPuts(ts) == { task \in ts : task.type = "put" /\ task.url \in KvUrls }

\* caches.default.put settles.
Put(task) ==
    /\ NoneDone
    /\ task \in tasks
    /\ task.type = "put"
    /\ \E e \in Stored(task) :
         cache' = IF e = NoEntry THEN cache ELSE [cache EXCEPT ![task.url] = e]
    /\ tasks' = tasks \ {task}
    /\ failed' = (failed /\ cache'[KvUrl(focus)] = cache[KvUrl(focus)])
    /\ replaced' = IF task.url = KvUrl(focus) /\ task \in KvPuts({task})
                        /\ cache'[task.url] # NoEntry
                    THEN cache[task.url] ELSE replaced
    /\ UNCHANGED <<clock, ticks, upstream, reqs, arrived, focus, pure>>

\* Time passes: while the worker is idle or waits for the upstream (a
\* request's fetch, a regeneration).  A put settles, and a handler runs
\* from one await to the next, within the millisecond.
Tick(d) ==
    /\ \A s \in Slots : reqs[s].pc \in {"idle", "fetch"}
    /\ \A task \in tasks : task.type # "put"
    /\ ticks < MaxTicks
    /\ clock' = clock + d
    /\ ticks' = ticks + 1
    /\ UNCHANGED <<upstream, cache, tasks, reqs, arrived, focus, failed,
                   replaced, pure>>

Next ==
    \/ \E s \in Slots, p \in RequestPaths, h \in RequestHeaders :
         handleFetch(s, p, h)
    \/ \E s \in Slots : Read(s)
    \/ \E s \in Slots, ok \in BOOLEAN, v \in 0 .. MaxVersion : Fetch(s, ok, v)
    \/ \E s \in Slots : Return(s)
    \/ \E task \in tasks, ok \in BOOLEAN, v \in 0 .. MaxVersion :
         Regenerate(task, ok, v)
    \/ \E task \in tasks : Put(task)
    \/ \E d \in TickSteps : Tick(d)

Spec == Init /\ [][Next]_vars

\* The worker on a runtime that lets every promise handed to ctx.waitUntil
\* settle, and every handler return its response.
SpecFair ==
    /\ Spec
    /\ WF_vars(\E task \in tasks, ok \in BOOLEAN, v \in 0 .. MaxVersion :
                  Regenerate(task, ok, v))
    /\ WF_vars(\E task \in tasks : Put(task))
    /\ WF_vars(\E s \in Slots : Return(s))

\* The worker with the faults handleFetch's try / catch is there for.
NextFaults ==
    \/ Next
    \/ \E s \in Slots : Throw(s)
    \/ \E s \in Slots : ReadThenThrow(s)
    \/ \E s \in Slots, ok \in BOOLEAN, v \in 0 .. MaxVersion :
         FetchThenThrow(s, ok, v)
SpecFaults == Init /\ [][NextFaults]_vars

\* ------------------------------------------------------------------ claims
FiveMinutesMs == 5 * 60 * 1000
TwoDaysMs == 2 * 24 * 60 * 60 * 1000

Done(s) == reqs[s].pc = "done"
\* The kv entry of the request in slot s, as the store holds it.
KvEntry(s) == cache[KvUrl(Key(reqs[s]))]
IsPayload(body) == body.kind \in {"Document", "FileListing"}
\* The request in slot s read the kv store and found an entry.
ReadHit(s) == Done(s) /\ reqs[s].from = "kv"
\* The request in slot s went to the upstream.
WentUpstream(s) == Done(s) /\ reqs[s].from = "upstream"
FreshData(s) ==
    Produce(Operation(reqs[s].path), Key(reqs[s]).path, upstream)

\* C1: a read without bypass that finds an entry with staleAt <= now (the
\* boundary now = staleAt included) answers with the entry's payload and
\* schedules exactly one regeneration.
C1_StaleReadRegenerates ==
    \A s \in Slots :
        (ReadHit(s) /\ reqs[s].cached.staleAt <= reqs[s].now) =>
            /\ reqs[s].response = RouteResponse(reqs[s].path, KvEntry(s).body)
            /\ reqs[s].regens = 1
            /\ \E task \in tasks :
                 task.type = "regen" /\ task.url = KvUrl(Key(reqs[s]))

\* C2: a read without bypass that finds an entry with now < staleAt answers
\* with the entry's payload, fetches nothing upstream and schedules no
\* regeneration.
C2_FreshReadIsQuiet ==
    \A s \in Slots :
        (ReadHit(s) /\ reqs[s].now < reqs[s].cached.staleAt) =>
            /\ reqs[s].response = RouteResponse(reqs[s].path, KvEntry(s).body)
            /\ reqs[s].fetches = 0
            /\ reqs[s].regens = 0
C2_Witness ==
    \E s \in Slots :
        /\ ReadHit(s)
        /\ reqs[s].now < reqs[s].cached.staleAt
        /\ reqs[s].response.status = 200

\* C3: a document or listing request whose upstream fetch is not ok is
\* answered 404 {error: "Not found"}, and once the request and its waitUntil
\* tasks have finished the store holds no entry the request created.
Quiescent == tasks = {} /\ \A s \in Slots : reqs[s].pc = "idle"
C3_NotFoundLeavesNoEntry ==
    /\ \A s \in Slots :
         (WentUpstream(s) /\ reqs[s].data = Null
            /\ Route(reqs[s].path) \in {"files", "markdown"}) =>
               reqs[s].response = NotFoundResponse
    /\ Quiescent =>
         \A u \in Urls : cache[u] # NoEntry => cache[u].status # 404

\* C4: a read that finds no entry (first access, or past expiresAt) fetches
\* and transforms before it answers; on success the answer is the fresh
\* payload and an entry is written with staleAt = write time + 5 minutes
\* and expiresAt = write time + 2 days.
C4_MissFetchesAndWrites ==
    /\ \A s \in Slots :
         (WentUpstream(s) /\ Via(reqs[s]) = "miss") =>
            /\ reqs[s].fetches = 1
            /\ ~reqs[s].cached.hit
            /\ reqs[s].data # Null =>
                 /\ reqs[s].response = RouteResponse(reqs[s].path, FreshData(s))
                 /\ \E task \in KvPuts(tasks) :
                      /\ task.url = KvUrl(Key(reqs[s]))
                      /\ task.resp.body = FreshData(s)
                      /\ \A e \in Stored(task) :
                           /\ e # NoEntry
                           /\ e.staleAt = clock + FiveMinutesMs
                           /\ e.expires /\ e.expiresAt = clock + TwoDaysMs
    /\ \A u \in KvUrls :
         cache[u] # NoEntry =>
            /\ IsPayload(cache[u].body)
            /\ cache[u].expires
            /\ cache[u].expiresAt - cache[u].staleAt = TwoDaysMs - FiveMinutesMs
\* The entry of the key was past expiresAt, and the read went upstream.
C4_Witness ==
    \E s \in Slots :
        /\ WentUpstream(s) /\ Via(reqs[s]) = "miss"
        /\ reqs[s].data # Null
        /\ KvEntry(s) # NoEntry
        /\ ~Live(KvEntry(s), reqs[s].now)

\* C5: a document or listing request with Cache-Control: no-cache fetches
\* upstream and answers with what it fetched, even when a fresh kv entry
\* and a cached response for its URL both exist.
C5_NoCacheAlwaysFetches ==
    \A s \in Slots :
        (Done(s) /\ reqs[s].hdr.cc = "no-cache"
           /\ Route(reqs[s].path) \in {"files", "markdown"}) =>
            /\ reqs[s].from = "upstream"
            /\ reqs[s].fetches = 1
            /\ reqs[s].response =
                 IF reqs[s].data = Null THEN NotFoundResponse
                 ELSE DataResponse(FreshData(s))
C5_Witness ==
    \E s \in Slots :
        /\ Done(s) /\ reqs[s].hdr.cc = "no-cache"
        /\ Route(reqs[s].path) \in {"files", "markdown"}
        /\ Live(KvEntry(s), clock) /\ clock < KvEntry(s).staleAt
        /\ Live(cache[ReqUrl(reqs[s].path)], clock)
        /\ cache[ReqUrl(reqs[s].path)].body # reqs[s].response.body

\* C6: on every route and for either directive (Cache-Control: no-cache or
\* Pragma: no-cache), a request carrying it fetches upstream and is served
\* no cached payload.
C6_BypassOnEveryRoute ==
    \A s \in Slots :
        (Done(s) /\ shouldSkipCache(reqs[s].hdr)) =>
            /\ reqs[s].from = "upstream"
            /\ reqs[s].fetches = 1

\* A put of the kv entry settles in this step.
Settles(task) == task \in KvPuts(tasks) /\ task \notin tasks'
\* A production attempt fails in this step: a miss or bypass read ends with
\* no data, or a regeneration ends without a write.
ReadFails(s) ==
    reqs[s].pc = "fetch" /\ reqs'[s].pc = "done" /\ reqs'[s].data = Null
RegenFails(task) ==
    task \in tasks /\ task.type = "regen" /\ tasks' = tasks \ {task}

\* C7: a bypass request whose production succeeds hands the fresh payload
\* to writeToCache; when that put settles the kv entry holds the payload
\* with staleAt = write time + 5 minutes, and a later read without bypass
\* that finds this entry inside the window is served it without a fetch.
C7_BypassHandsWrite ==
    \A s \in Slots :
        (WentUpstream(s) /\ Via(reqs[s]) = "bypass" /\ reqs[s].data # Null) =>
            \E task \in KvPuts(tasks) :
                /\ task.url = KvUrl(Key(reqs[s]))
                /\ task.via = "bypass"
                /\ task.resp.body = FreshData(s)
                /\ task.staleAt = clock + FiveMinutesMs
C7_BypassEntryServed ==
    \A s \in Slots :
        (ReadHit(s) /\ KvEntry(s).via = "bypass"
           /\ reqs[s].now < KvEntry(s).staleAt) =>
            /\ reqs[s].response = RouteResponse(reqs[s].path, KvEntry(s).body)
            /\ reqs[s].fetches = 0
C7_BypassPutSettles ==
    \A task \in tasks :
        (Settles(task) /\ task.via = "bypass") =>
            /\ cache'[task.url] # NoEntry
            /\ cache'[task.url].body = task.resp.body
            /\ cache'[task.url].staleAt = task.staleAt
            /\ cache'[task.url].via = "bypass"
C7_BypassWritesBack ==
    /\ [](C7_BypassHandsWrite /\ C7_BypassEntryServed)
    /\ [][C7_BypassPutSettles]_vars
\* A read without bypass is served the entry a bypass request wrote.
C7_Witness ==
    \E s \in Slots :
        /\ ReadHit(s)
        /\ KvEntry(s).via = "bypass"
        /\ reqs[s].now < KvEntry(s).staleAt
        /\ reqs[s].response.status = 200

\* C8: a failed production attempt (upstream not ok) leaves the kv entry as
\* it was: it changes no entry and hands no write to the store, so every kv
\* entry and every pending kv write holds a produced payload; and a stale
\* read is answered with the stale payload whatever its regeneration does.
C8_OnlyPayloadsWritten ==
    /\ \A task \in KvPuts(tasks) : IsPayload(task.resp.body)
    /\ \A u \in KvUrls : cache[u] # NoEntry => IsPayload(cache[u].body)
    /\ \A s \in Slots :
         (ReadHit(s) /\ reqs[s].regens = 1) =>
            reqs[s].response = RouteResponse(reqs[s].path, KvEntry(s).body)
C8_FailureFrame ==
    /\ (\E s \in Slots : ReadFails(s)) =>
          /\ \A u \in KvUrls : cache'[u] = cache[u]
          /\ KvPuts(tasks') = KvPuts(tasks)
    /\ (\E task \in tasks : RegenFails(task)) =>
          \A u \in KvUrls : cache'[u] = cache[u]
    /\ \A u \in KvUrls :
          cache'[u] # cache[u] =>
             \E task \in KvPuts(tasks) :
                 /\ task.url = u /\ Settles(task)
                 /\ IsPayload(task.resp.body)
                 /\ cache'[u].body = task.resp.body
C8_FailedProductionKeepsEntry ==
    []C8_OnlyPayloadsWritten /\ [][C8_FailureFrame]_vars
\* A regeneration has failed and the stale entry is still there, unchanged.
C8_Witness ==
    /\ failed
    /\ cache[KvUrl(focus)] # NoEntry
    /\ cache[KvUrl(focus)].staleAt < clock
    /\ Live(cache[KvUrl(focus)], clock)
    /\ KvPuts(tasks) = {}

\* C9: after a failed regeneration, every later request without bypass for
\* the resource that arrives while the entry is stale and not expired
\* triggers another regeneration attempt.
C9_StaleReadsKeepRegenerating ==
    \A s \in Slots :
        (/\ Done(s)
         /\ ~shouldSkipCache(reqs[s].hdr)
         /\ failed
         /\ Live(KvEntry(s), clock)
         /\ KvEntry(s).staleAt < clock) =>
            /\ reqs[s].regens = 1
            /\ \E task \in tasks :
                 task.type = "regen" /\ task.url = KvUrl(Key(reqs[s]))

\* C10: every kv entry has staleAt < expiresAt (both in milliseconds), and
\* no read returns an entry whose expiresAt has passed.
C10_StaleBeforeExpiry ==
    /\ \A u \in KvUrls :
         cache[u] # NoEntry =>
            cache[u].expires /\ cache[u].staleAt < cache[u].expiresAt
    /\ \A task \in KvPuts(tasks) : \A e \in Stored(task) :
         e # NoEntry /\ e.expires /\ e.staleAt < e.expiresAt
    /\ \A s \in Slots :
         /\ ReadHit(s) => clock < KvEntry(s).expiresAt
         /\ (Done(s) /\ reqs[s].from = "response-cache") =>
               Live(cache[ReqUrl(reqs[s].path)], clock)
\* A read met an entry exactly at its expiresAt and treated it as absent.
C10_Witness ==
    \E s \in Slots :
        /\ WentUpstream(s) /\ Via(reqs[s]) = "miss"
        /\ KvEntry(s) # NoEntry
        /\ KvEntry(s).expiresAt = reqs[s].now
        /\ KvEntry(s).staleAt < KvEntry(s).expiresAt

\* ------------------------------------------------------------------ parseMarkdown
\* The options parseMarkdown passes to sanitize-html.
allowedTags ==
    << "address", "article", "aside", "footer", "header", "h1", "h2", "h3",
       "h4", "h5", "h6", "hgroup", "main", "nav", "section", "blockquote",
       "img", "dd", "div", "dl", "dt", "figcaption", "figure", "hr", "li",
       "main", "ol", "p", "pre", "ul", "a", "abbr", "b", "bdi", "bdo", "br",
       "cite", "code", "data", "dfn", "em", "i", "kbd", "mark", "q", "rb",
       "rp", "rt", "rtc", "ruby", "s", "samp", "small", "span", "strong",
       "sub", "sup", "time", "u", "var", "wbr", "caption", "col", "colgroup",
       "table", "tbody", "td", "tfoot", "th", "thead", "tr" >>
allowedAttributes(tag) ==
    {"class", "id", "style"} \cup
    CASE tag = "a" -> {"href", "name", "target"}
      [] tag = "img" ->
           {"src", "srcset", "alt", "title", "width", "height", "loading"}
      [] OTHER -> {}
allowedSchemes == {"http", "https", "ftp", "mailto", "tel"}
allowedSchemesAppliedToAttributes == {"href", "src", "cite"}

\* An element of the html marked produces: its tag and its attributes, each
\* attribute with the scheme of its value ("" when the value has none).
Attr(name, scheme) == [name |-> name, scheme |-> scheme]
Element(tag, attrs) == [tag |-> tag, attrs |-> attrs]
HtmlElements ==
    { Element("p", {}),
      Element("div", {Attr("class", ""), Attr("onclick", "")}),
      Element("img", {Attr("src", "https"), Attr("alt", "")}),
      Element("img", {Attr("src", "javascript"), Attr("onerror", "")}),
      Element("a", {Attr("href", "mailto"), Attr("rel", "")}),
      Element("script", {Attr("src", "https")}),
      Element("iframe", {Attr("src", "https")}) }
RECURSIVE SeqsUpTo(_, _)
SeqsUpTo(S, n) ==
    IF n = 0 THEN {<< >>}
    ELSE LET shorter == SeqsUpTo(S, n - 1)
         IN shorter \cup { Append(q, x) : q \in shorter, x \in S }
Htmls == SeqsUpTo(HtmlElements, MaxElements)

Range(q) == { q[i] : i \in 1 .. Len(q) }
\* sanitize-html with disallowedTagsMode "discard": an element whose tag is
\* not allowed is dropped; an allowed one keeps the attributes allowed for
\* its tag or for "*", less those among href / src / cite whose value has a
\* scheme that is not allowed.
allowedTag(tag) == tag \in Range(allowedTags)
allowedAttr(tag, a) ==
    /\ a.name \in allowedAttributes(tag)
    /\ a.name \in allowedSchemesAppliedToAttributes =>
          (a.scheme = "" \/ a.scheme \in allowedSchemes)
RECURSIVE sanitize(_)
sanitize(html) ==
    IF html = << >> THEN << >>
    ELSE LET e == Head(html)
             rest == sanitize(Tail(html))
         IN IF allowedTag(e.tag)
            THEN <<Element(e.tag, { a \in e.attrs : allowedAttr(e.tag, a) })>>
                   \o rest
            ELSE rest

\* ------------------------------------------------------------------ createNewFilesCacheEntry
\* A path of the tree is the sequence of its characters.
ReadmeLower == <<"R", "E", "A", "D", "M", "E", ".", "m", "d">>
ReadmeUpper == <<"R", "E", "A", "D", "M", "E", ".", "M", "D">>
Markdown == <<"d", "/", "a", ".", "m", "a", "r", "k", "d", "o", "w", "n">>
IndexTs == <<"s", "/", "i", ".", "t", "s">>
Md == <<"m", "d">>
\* An item of content.tree.
Item(path, type, sha) == [path |-> path, type |-> type, sha |-> sha]
TreeItems ==
    { Item(ReadmeLower, "blob", "s1"),
      Item(ReadmeUpper, "blob", "s2"),
      Item(ReadmeLower, "tree", "s3"),
      Item(Markdown, "blob", "s4"),
      Item(IndexTs, "blob", "s5"),
      Item(Md, "blob", "s6") }
Trees == SeqsUpTo(TreeItems, MaxTree)

\* String.prototype.toLocaleLowerCase on the characters the paths use.
LowerOf(c) ==
    CASE c = "R" -> "r" [] c = "E" -> "e" [] c = "A" -> "a" [] c = "D" -> "d"
      [] c = "M" -> "m" [] OTHER -> c
\* (as if the path were compared as it is)
toLocaleLowerCaseNot(path) == path
toLocaleLowerCase(path) == [i \in 1 .. Len(path) |-> LowerOf(path[i])]
\* String.prototype.endsWith
endsWith(str, suffix) ==
    /\ Len(suffix) <= Len(str)
    /\ SubSeq(str, Len(str) - Len(suffix) + 1, Len(str)) = suffix
DotMd == <<".", "m", "d">>
\* content.tree.reduce((acc, item) => ..., [])
RECURSIVE reduce(_, _)
reduce(tree, acc) ==
    IF tree = << >> THEN acc
    ELSE LET item == Head(tree)
         IN reduce(Tail(tree),
                   IF item.type = "blob"
                        /\ endsWith(toLocaleLowerCase(item.path), DotMd)
                   THEN Append(acc, [path |-> item.path, sha |-> item.sha])
                   ELSE acc)
files(tree) == reduce(tree, << >>)

\* ------------------------------------------------------------------ pure calls
\* A behaviour of SpecPure follows one call of parseMarkdown's sanitizer, of
\* the listing's filter or of handleFetch's dispatch, on an input drawn from
\* the bounded sets, while the worker stays as it starts.
PathSegments == {"_demo", "u", "r", "m", "a.md"}
Paths == SeqsUpTo(PathSegments, MaxSegments)
Call(fn, input) ==
    [fn |-> fn, input |-> input, output |-> << >>, done |-> FALSE]
Calls ==
    { Call("sanitize", html) : html \in Htmls }
      \cup { Call("files", tree) : tree \in Trees }
      \cup { Call("dispatch", path) : path \in Paths }
Returned(fn) == pure.fn = fn /\ pure.done

InitPure ==
    /\ clock = 0
    /\ ticks = 0
    /\ upstream = 0
    /\ cache = [u \in Urls |-> NoEntry]
    /\ tasks = {}
    /\ reqs = [s \in Slots |-> Idle]
    /\ arrived = 0
    /\ focus = KvKey(Operation(DocPath), DocPath)
    /\ failed = FALSE
    /\ replaced = NoEntry
    /\ pure \in Calls

Worker ==
    <<clock, ticks, upstream, cache, tasks, reqs, arrived, focus, failed,
      replaced>>
\* html = sanitize(html, {...})
Sanitize ==
    /\ pure.fn = "sanitize" /\ ~pure.done
    /\ pure' = [pure EXCEPT !.output = sanitize(pure.input), !.done = TRUE]
    /\ UNCHANGED Worker
\* let files = content.tree.reduce(...)
ListFiles ==
    /\ pure.fn = "files" /\ ~pure.done
    /\ pure' = [pure EXCEPT !.output = files(pure.input), !.done = TRUE]
    /\ UNCHANGED Worker
\* handleFetch picks the route of url.pathname.
Dispatch ==
    /\ pure.fn = "dispatch" /\ ~pure.done
    /\ pure' = [pure EXCEPT !.output = Route(pure.input), !.done = TRUE]
    /\ UNCHANGED Worker

NextPure == Sanitize \/ ListFiles \/ Dispatch
SpecPure == InitPure /\ [][NextPure]_vars

\* ------------------------------------------------------------------ claims
\* C11: the tags parseMarkdown allows do not include img, so no img element
\* is left in the html the sanitizer returns.
C11_ImgNeverSurvives ==
    Returned("sanitize") =>
        \A i \in 1 .. Len(pure.output) : pure.output[i].tag # "img"

\* C12: files is the subsequence of content.tree of the blobs whose path
\* ends in .md, whatever the case of the suffix, each as {path, sha}, in the
\* order of the tree and with its duplicates.
MdSuffixes ==
    { <<".", "m", "d">>, <<".", "M", "D">>, <<".", "M", "d">>,
      <<".", "m", "D">> }
IsMarkdownBlob(item) ==
    /\ item.type = "blob"
    /\ Len(item.path) >= 3
    /\ \E x \in MdSuffixes :
         \A k \in 1 .. 3 : item.path[Len(item.path) - 3 + k] = x[k]
KeptAt(tree) == { i \in 1 .. Len(tree) : IsMarkdownBlob(tree[i]) }
C12_FilesAreTheMarkdownBlobs ==
    Returned("files") =>
        LET tree == pure.input
            out == pure.output
        IN /\ Len(out) = Cardinality(KeptAt(tree))
           /\ \A i \in KeptAt(tree) :
                LET k == Cardinality({ j \in KeptAt(tree) : j <= i })
                IN out[k] = [path |-> tree[i].path, sha |-> tree[i].sha]
\* README.MD is kept, twice, between files that are dropped.
C12_Witness ==
    /\ Returned("files")
    /\ Len(pure.input) = 3
    /\ pure.input[2] = Item(IndexTs, "blob", "s5")
    /\ pure.output = << [path |-> ReadmeUpper, sha |-> "s2"],
                        [path |-> ReadmeUpper, sha |-> "s2"] >>

\* C13 (as claimed): a fault thrown while handleFetch handles a request is
\* answered 500 {error: "Internal server error"}, and the request has handed
\* nothing to the store: no regeneration, no kv write, no response put.
Faulted(s) == Done(s) /\ reqs[s].from = "fault"
AnsweredInternalError(s) ==
    /\ reqs[s].response.status = 500
    /\ reqs[s].response.body = [kind |-> "error",
                                error |-> "Internal server error"]
NoResponsePut(s) ==
    \A task \in tasks :
        (task.type = "put" /\ task.url = ReqUrl(reqs[s].path)) =>
            task.resp.status # 500
C13_FaultWritesNothing ==
    \A s \in Slots :
        Faulted(s) =>
            /\ AnsweredInternalError(s)
            /\ reqs[s].regens = 0
            /\ reqs[s].writes = 0
            /\ NoResponsePut(s)
\* C13 (amended): the fault is answered 500 {error: "Internal server error"}
\* and its response is not put in the response cache; a document or listing
\* request that faults has handed no task to the store, while a docs or demo
\* page that faults after renderMarkdown returned leaves the regeneration or
\* the kv write renderMarkdown handed over.
C13_FaultAnswered500 ==
    \A s \in Slots :
        Faulted(s) =>
            /\ AnsweredInternalError(s)
            /\ NoResponsePut(s)
            /\ Route(reqs[s].path) \in {"files", "markdown"} =>
                  (reqs[s].regens = 0 /\ reqs[s].writes = 0)
            /\ reqs[s].fetches = 0 => reqs[s].writes = 0
\* The upstream fetch of a miss rejected: no entry before, none handed.
C13_Witness ==
    \E s \in Slots :
        /\ Faulted(s)
        /\ Route(reqs[s].path) \in {"files", "markdown"}
        /\ ~shouldSkipCache(reqs[s].hdr)
        /\ KvEntry(s) = NoEntry
        /\ tasks = {}

\* C14 (as claimed): a path of exactly three non-empty segments is answered
\* by renderFiles, and a path of four or more by renderMarkdown.
C14_SegmentsDecide ==
    Returned("dispatch") =>
        /\ Len(pure.input) = 3 => pure.output = "files"
        /\ Len(pure.input) >= 4 => pure.output = "markdown"
\* C14 (amended): that holds of the paths that do not begin with /_demo/;
\* a path that begins with /_demo/ and has a further segment is answered by
\* renderDemo, whatever the number of its segments.
UnderDemo(path) == Len(path) >= 2 /\ Head(path) = "_demo"
C14_SegmentsDecideOutsideDemo ==
    Returned("dispatch") =>
        /\ (Len(pure.input) = 3 /\ ~UnderDemo(pure.input)) =>
              pure.output = "files"
        /\ (Len(pure.input) >= 4 /\ ~UnderDemo(pure.input)) =>
              pure.output = "markdown"
        /\ UnderDemo(pure.input) => pure.output = "demo"
C14_Witness ==
    /\ Returned("dispatch")
    /\ pure.input = ListPath
    /\ pure.output = "files"

\* C15: regenerations of one key are neither coalesced nor versioned: every
\* stale read adds a regeneration of its own to the pending ones, and a kv
\* put that settles replaces the entry with its payload whatever version the
\* entry held; so the entry can end with the older of two regenerated
\* payloads after the newer one had been written (C15_Witness).
Regens(ts) == { task \in ts : task.type = "regen" }
C15_EveryStaleReadRegenerates ==
    \A s \in Slots :
        (reqs[s].pc = "read" /\ reqs'[s].pc = "done" /\ reqs'[s].regens = 1) =>
            /\ reqs'[s].cached.staleAt < reqs'[s].now
            /\ Cardinality(Regens(tasks')) = Cardinality(Regens(tasks)) + 1
C15_LastWriteWins ==
    \A task \in tasks :
        Settles(task) =>
            /\ cache'[task.url] # NoEntry
            /\ cache'[task.url].body = task.resp.body
            /\ cache'[task.url].staleAt = task.staleAt
C15_NotCoalescedNotVersioned ==
    [][C15_EveryStaleReadRegenerates /\ C15_LastWriteWins]_vars
\* Two regenerations wrote the entry; the one written last holds the older
\* content, and the one it replaced the newer.
C15_Witness ==
    /\ cache[KvUrl(focus)] # NoEntry
    /\ replaced # NoEntry
    /\ cache[KvUrl(focus)].via = "regen"
    /\ replaced.via = "regen"
    /\ cache[KvUrl(focus)].body.ver < replaced.body.ver

\* C16: when ctx.waitUntil lets its tasks run, a regeneration whose fetch
\* succeeds hands over a write of the payload it produced with a Stale-At
\* later than the one its stale read saw; a kv write leaves the pending tasks
\* only by replacing the entry of its key with that payload and Stale-At; and
\* no task stays pending for ever.
RegenWrite(put, task) ==
    /\ put.url = task.url
    /\ put.via = "regen"
    /\ put.resp.body = Produce(task.op, task.url[3], upstream')
    /\ put.staleAt = clock + FiveMinutesMs
    /\ put.staleAt > task.staleAt
C16_RegenerationHandsWrite ==
    \A task \in Regens(tasks) :
        task \notin tasks' =>
            /\ ~failed' => \E put \in KvPuts(tasks') : RegenWrite(put, task)
            /\ \A put \in KvPuts(tasks') \ KvPuts(tasks) : RegenWrite(put, task)
C16_WriteReplacesEntry ==
    \A put \in KvPuts(tasks) :
        put \notin tasks' =>
            /\ cache'[put.url] # NoEntry
            /\ cache'[put.url].body = put.resp.body
            /\ cache'[put.url].staleAt = put.staleAt
            /\ cache'[put.url].via = put.via
C16_RegenerationOverwrites ==
    /\ [][C16_RegenerationHandsWrite /\ C16_WriteReplacesEntry]_vars
    /\ []<>(tasks = {})
\* A regeneration has replaced the entry its stale read saw by newer content
\* with a later Stale-At, and nothing is pending.
C16_Witness ==
    /\ tasks = {}
    /\ replaced # NoEntry
    /\ cache[KvUrl(focus)] # NoEntry
    /\ cache[KvUrl(focus)].via = "regen"
    /\ cache[KvUrl(focus)].staleAt > replaced.staleAt
    /\ cache[KvUrl(focus)].body.ver > replaced.body.ver

\* C17: a read returns the payload and the Stale-At of one entry of the
\* store; an entry changes only as a whole, to the payload and Stale-At of
\* one settling put; and every put of a kv entry carries the payload and the
\* Stale-At one writeToCache call gave it.  So no read pairs the payload of
\* one write with the Stale-At of another.
C17_ReadReturnsOneEntry ==
    \A s \in Slots :
        (Done(s) /\ reqs[s].cached.hit) =>
            /\ KvEntry(s) # NoEntry
            /\ reqs[s].cached.data = KvEntry(s).body
            /\ reqs[s].cached.staleAt = KvEntry(s).staleAt
C17_PutIsOneWrite ==
    \A put \in KvPuts(tasks) :
        /\ put.staleAt = put.created + FiveMinutesMs
        /\ put.resp.status = 200
        /\ IsPayload(put.resp.body)
C17_EntryReplacedWhole ==
    \A u \in KvUrls :
        cache'[u] # cache[u] =>
            \E put \in KvPuts(tasks) :
                /\ put.url = u /\ put \notin tasks'
                /\ cache'[u] \in Stored(put)
                /\ cache'[u].body = put.resp.body
                /\ cache'[u].staleAt = put.staleAt
C17_ReplacementIsAtomic ==
    /\ [](C17_ReadReturnsOneEntry /\ C17_PutIsOneWrite)
    /\ [][C17_EntryReplacedWhole]_vars
\* A read met the entry while a write of the same key, with another
\* payload and another Stale-At, was on its way.
C17_Witness ==
    \E s \in Slots :
        /\ ReadHit(s)
        /\ \E put \in KvPuts(tasks) :
             /\ put.url = KvUrl(Key(reqs[s]))
             /\ put.resp.body # reqs[s].cached.data
             /\ put.staleAt # reqs[s].cached.staleAt

\* C18: once a regeneration has replaced the kv entry of a resource, no
\* request without bypass for that resource is answered with the payload the
\* entry held before (whether the answer comes from the kv entry, from the
\* upstream or from the response cache).
C18_NoOldPayloadAfterRegeneration ==
    \A s \in Slots :
        (/\ Done(s)
         /\ ~shouldSkipCache(reqs[s].hdr)
         /\ KvEntry(s) # NoEntry
         /\ KvEntry(s).via = "regen"
         /\ replaced # NoEntry
         /\ replaced.body # KvEntry(s).body) =>
            reqs[s].response # RouteResponse(reqs[s].path, replaced.body)

\* C19: the kv key is the operation's prefix followed by the path, files for
\* renderFiles and json-swr for renderMarkdown; every entry under a files
\* key holds a FileListing and every entry under a json-swr key a Document,
\* and a read of renderFiles returns a FileListing, a read of renderMarkdown
\* a Document.
KindOf(route) == IF route = "files" THEN "FileListing" ELSE "Document"
C19_KeysHoldTheirKind ==
    /\ \A u \in KvUrls :
         cache[u] # NoEntry =>
            /\ u[2] = "files" => cache[u].body.kind = "FileListing"
            /\ u[2] = "json-swr" => cache[u].body.kind = "Document"
    /\ \A put \in KvPuts(tasks) :
         /\ put.url[2] = "files" => put.resp.body.kind = "FileListing"
         /\ put.url[2] = "json-swr" => put.resp.body.kind = "Document"
    /\ \A s \in Slots :
         /\ reqs[s].pc # "idle" =>
               KvUrl(Key(reqs[s])) =
                  << "kv",
                     IF Route(reqs[s].path) = "files" THEN "files"
                     ELSE "json-swr",
                     Inner(reqs[s]).path >>
         /\ (Done(s) /\ reqs[s].cached.hit) =>
               reqs[s].cached.data.kind = KindOf(Route(reqs[s].path))
\* A document read of /u/r/m (through /_demo/u/r/m), the path renderFiles
\* lists, found the Document of its own key.
C19_Witness ==
    \E s \in Slots :
        /\ ReadHit(s)
        /\ reqs[s].path = DemoListPath
        /\ Key(reqs[s]).path = ListPath
        /\ reqs[s].cached.data.kind = "Document"

====
